---- MODULE Spec2Model ----
(***************************************************************************)
(* A model of the SteelSeries Rival 650 battery monitor: the device        *)
(* registry (devices.py), the access verifier, the connection manager, the *)
(* HID session and the battery status resolver (_init.py), and the tray     *)
(* application's monitor loop and menu callbacks (main.py).                *)
(*                                                                         *)
(* The HID transport (the `hid` package) is the environment: what          *)
(* hid.enumerate() lists, whether open_path() succeeds and what read()     *)
(* returns are inputs, drawn anew at every transport call, so a device may *)
(* appear, disappear or stop answering between any two calls.              *)
(***************************************************************************)
EXTENDS Integers, Sequences, FiniteSets, TLC

VARIABLES
    profile,        \* devices.profile: the registry, a sequence of profiles
    exists_model,   \* DeviceManager.exists_model: 0 is None, k is models[k]
    pc,             \* where BatteryStatus.get_status() stands
    phase,          \* "primary" or "cascade" attempt of get_status()
    cur,            \* the attempt in progress: [model, battery] (indices)
    cands,          \* the cascade's attempts still to make, in order
    hid_device,     \* get_status()'s local hid_device: <<>> is None, <<path>>
    status,         \* get_status()'s local status: the DeviceStatus
    outcome,        \* how the last get_status() ended: "none", "returned", "raised"
    trace,          \* the transport and decode events of the current call
    handles,        \* the device handles open right now (paths)
    call,           \* one call of a single operation with its arguments and result
    env,            \* what the devices do from now on: [good, others]
    mon,            \* where the monitor thread stands in SystrayIcon.get_battery()
    device,         \* get_battery()'s local device: 0 is None, k is models[k]
    consecutive_failures,   \* get_battery()'s local counter
    stopped,        \* SystrayIcon.stopped
    event,          \* SystrayIcon.event: whether the flag is set
    dm_exists,      \* SystrayIcon.device_manager.exists_model
    bs_exists,      \* SystrayIcon.battery_status.device_manager.exists_model
    battery_level,  \* SystrayIcon.battery_level
    ui,             \* what the tray icon shows: [state, name]
    menu,           \* where the menu thread stands: [pc, k, found]
    since_success,  \* polls that returned the sentinel since the last full read
    refreshed,      \* a manual refresh has completed since this iteration began
    recovery        \* how far the handling of the last raised iteration has got

\* The state of the tray application.
mvars == <<mon, device, consecutive_failures, stopped, event, dm_exists,
           bs_exists, battery_level, ui, menu, since_success, refreshed,
           recovery>>

vars == <<profile, exists_model, pc, phase, cur, cands, hid_device,
          status, outcome, trace, handles, call, env, mvars>>

(***************************************************************************)
(* Program constants.                                                      *)
(***************************************************************************)
HID_REPORT_TYPE_OUTPUT == 2
HID_USAGE_VALUE == 1
DEFAULT_REPORT_ID == 0

\* The literal of _init.py line 180 (and of main.py line 127).
NoDeviceFound == "No device found"

\* Python's None for an optional integer or boolean of a DeviceStatus.
None == -1

(***************************************************************************)
(* Bounds.                                                                 *)
(***************************************************************************)
MaxVariants == 3     \* variants in a generated registry
MaxIfaces == 2       \* interfaces one hid.enumerate() call lists
MaxPayload == 2      \* bytes of a hid_write payload
MaxPacket == 5       \* largest packet_length given to hid_write

\* The byte values the inputs are drawn from.
ByteVals == {0, 42, 255}

RECURSIVE SumSeq(_)
SumSeq(s) == IF s = <<>> THEN 0 ELSE Head(s) + SumSeq(Tail(s))

RECURSIVE Flatten(_)
Flatten(ss) == IF ss = <<>> THEN <<>> ELSE Head(ss) \o Flatten(Tail(ss))

SeqsUpTo(S, n) == UNION {[1..k -> S] : k \in 0..n}

(***************************************************************************)
(* The registry.  A profile is [name, models, battery_level]; a model is   *)
(* [name, vendor_id, product_id, endpoint]; battery_level is [report_type, *)
(* command, response_length, is_charging, level], where the two decode     *)
(* lambdas `lambda data: bool(data[i])` and `lambda data: int(data[j])`    *)
(* are kept as the indices i and j (0-based, as in the source).            *)
(***************************************************************************)
ShippedBattery ==
    [report_type |-> HID_REPORT_TYPE_OUTPUT, command |-> <<170, 1>>,
     response_length |-> 3, is_charging |-> 2, level |-> 0]

ShippedProfile ==
    << [name |-> "SteelSeries Rival 650 Wireless",
        models |-> << [name |-> "SteelSeries Rival 650 (wired mode)",
                       vendor_id |-> 4152, product_id |-> 5931, endpoint |-> 0],
                      [name |-> "SteelSeries Rival 650 (wireless mode)",
                       vendor_id |-> 4152, product_id |-> 5926, endpoint |-> 0] >>,
        battery_level |-> ShippedBattery] >>

\* Other battery protocols a registry may hold: another command, length and
\* byte layout; a report kind hid_write does not support; a response length
\* that does not cover the byte is_charging reads.
AltBattery ==
    [report_type |-> HID_REPORT_TYPE_OUTPUT, command |-> <<187>>,
     response_length |-> 2, is_charging |-> 0, level |-> 1]
BadReportBattery == [ShippedBattery EXCEPT !.report_type = 3]
ShortBattery == [ShippedBattery EXCEPT !.response_length = 1]

BatterySpecs == {ShippedBattery, AltBattery, BadReportBattery, ShortBattery}

\* The shapes of a registry: how many variants each profile holds.
Shapes ==
    {s \in UNION {[1..k -> 1..MaxVariants] : k \in 1..MaxVariants} :
        SumSeq(s) <= MaxVariants}

FirstOf(shape, p) == SumSeq(SubSeq(shape, 1, p - 1))

\* The registry of a shape: distinct names and product ids, given by position.
MkRegistry(shape, bats) ==
    [p \in 1..Len(shape) |->
        [name |-> "profile " \o ToString(p),
         models |-> [j \in 1..shape[p] |->
                        [name |-> "variant " \o ToString(FirstOf(shape, p) + j),
                         vendor_id |-> 4152,
                         product_id |-> FirstOf(shape, p) + j,
                         endpoint |-> 0]],
         battery_level |-> bats[p]]]

\* The protocols of a registry's profiles: the shipped one, but for at most
\* one profile.
BatteryChoices(n) ==
    {[p \in 1..n |-> IF p = q THEN b ELSE ShippedBattery] :
        q \in 1..n, b \in BatterySpecs}

GeneratedRegistries ==
    UNION {{MkRegistry(s, b) : b \in BatteryChoices(Len(s))} : s \in Shapes}

Registries == {ShippedProfile} \cup GeneratedRegistries

\* _load_models(): every model of every profile, in registry order.
LoadModels(prof) == Flatten([p \in 1..Len(prof) |-> prof[p].models])

models == LoadModels(profile)

(***************************************************************************)
(* The HID transport.  hid.enumerate() either fails or lists interfaces;   *)
(* an interface is [interface_number, usage, path, open_ok, close_ok]:     *)
(* open_ok says whether open_path(path) succeeds now, close_ok whether the *)
(* close() that follows reports no fault.  hid_close() frees the handle    *)
(* before anything can be reported, so a close that faults has still       *)
(* released the handle.                                                    *)
(***************************************************************************)
Iface(n, u, p, o, c) ==
    [interface_number |-> n, usage |-> u, path |-> p, open_ok |-> o, close_ok |-> c]

EnumFault == [fault |-> TRUE, ifaces |-> <<>>]
EnumOf(ifaces) == [fault |-> FALSE, ifaces |-> ifaces]

\* The path of the interface a model names.
PathOf(m) == m.product_id * 10 + m.endpoint

\* The devices may do anything at any call.
AnyDevices == [good |-> 0, others |-> "any"]

\* What the other variants do once variant env.good stays accessible and
\* answers every query in full: anything at any call, or they stay absent,
\* or they stay accessible with every read failing in the transport.
OtherDevices == {"any", "absent", "faulty"}

Steady(m) == env.good # 0 /\ m = models[env.good]
Absent(m) == env.good # 0 /\ m # models[env.good] /\ env.others = "absent"
Faulty(m) == env.good # 0 /\ m # models[env.good] /\ env.others = "faulty"

\* What hid.enumerate(vendor_id, product_id) may yield for a model during a
\* status request: a fault, nothing, or its interface, openable or not.
StatusEnums(m) ==
    IF Steady(m) \/ Faulty(m)
    THEN {EnumOf(<<Iface(m.endpoint, HID_USAGE_VALUE, PathOf(m), TRUE, TRUE)>>)}
    ELSE IF Absent(m)
    THEN {EnumOf(<<>>)}
    ELSE {EnumFault, EnumOf(<<>>)}
         \cup {EnumOf(<<Iface(m.endpoint, HID_USAGE_VALUE, PathOf(m), o, TRUE)>>) :
                 o \in BOOLEAN}

\* What a call yields: a return with its value, or a raise with its exception;
\* log lists the transport calls it made that changed a handle or the device.
Return(v, log) == [kind |-> "return", exc |-> "", value |-> v, log |-> log]
Raise(e, v, log) == [kind |-> "raise", exc |-> e, value |-> v, log |-> log]

Ev(e, p) == [ev |-> e, path |-> p]

RECURSIVE RemoveOne(_, _)
RemoveOne(s, x) ==
    IF s = <<>> THEN <<>>
    ELSE IF Head(s) = x THEN Tail(s) ELSE <<Head(s)>> \o RemoveOne(Tail(s), x)

\* The open handles after the transport calls of log.
RECURSIVE ApplyLog(_, _)
ApplyLog(h, log) ==
    IF log = <<>> THEN h
    ELSE ApplyLog(IF Head(log).ev = "open" THEN Append(h, Head(log).path)
                  ELSE IF Head(log).ev = "close" THEN RemoveOne(h, Head(log).path)
                  ELSE h,
                  Tail(log))

Matches(i, endpoint) ==
    i.interface_number = endpoint /\ i.usage = HID_USAGE_VALUE

(***************************************************************************)
(* DeviceManager.verify_device_access                                      *)
(***************************************************************************)
\* Lines 84-86 without the close: a plausible slip.
verify_probe_noclose(i) ==
    IF ~i.open_ok THEN Raise("OSError", FALSE, <<>>)
    ELSE Return(TRUE, <<Ev("open", i.path)>>)

\* Lines 84-86: open_path, close, return True.
verify_probe(i) ==
    IF ~i.open_ok THEN Raise("OSError", FALSE, <<>>)
    ELSE IF ~i.close_ok
         THEN Raise("OSError", FALSE, <<Ev("open", i.path), Ev("close", i.path)>>)
         ELSE Return(TRUE, <<Ev("open", i.path), Ev("close", i.path)>>)

\* Lines 82-87: the loop over the enumerated interfaces.
RECURSIVE verify_loop(_, _, _)
verify_loop(ifaces, k, endpoint) ==
    IF k > Len(ifaces) THEN Return(FALSE, <<>>)
    ELSE IF Matches(ifaces[k], endpoint) THEN verify_probe(ifaces[k])
    ELSE verify_loop(ifaces, k + 1, endpoint)

\* Lines 81-87: the body of the try.
verify_try(enum, endpoint) ==
    IF enum.fault THEN Raise("OSError", FALSE, <<>>)
    ELSE verify_loop(enum.ifaces, 1, endpoint)

\* The try without its except clause: a plausible slip.
verify_device_access_noexcept(enum, endpoint) == verify_try(enum, endpoint)

\* Lines 80-89: `except Exception: return False`.
verify_device_access(enum, endpoint) ==
    LET r == verify_try(enum, endpoint)
    IN  IF r.kind = "raise" THEN Return(FALSE, r.log) ELSE r

(***************************************************************************)
(* DeviceManager.find_existing_model, on world: what hid.enumerate yields  *)
(* for each model when it is probed.  0 is None.                           *)
(***************************************************************************)
CanAccess(mods, world, k) ==
    verify_device_access(world[k], mods[k].endpoint).value

\* The scan returning the last accessible model: a plausible slip.
RECURSIVE find_loop_last(_, _, _)
find_loop_last(mods, world, k) ==
    IF k < 1 THEN 0
    ELSE IF CanAccess(mods, world, k) THEN k
    ELSE find_loop_last(mods, world, k - 1)

find_existing_model_last(mods, world) == find_loop_last(mods, world, Len(mods))

RECURSIVE find_loop(_, _, _)
find_loop(mods, world, k) ==
    IF k > Len(mods) THEN 0
    ELSE IF CanAccess(mods, world, k) THEN k
    ELSE find_loop(mods, world, k + 1)

find_existing_model(mods, world) == find_loop(mods, world, 1)

Worlds(mods) ==
    {w \in [1..Len(mods) -> UNION {StatusEnums(mods[k]) : k \in 1..Len(mods)}] :
        \A k \in 1..Len(mods) : w[k] \in StatusEnums(mods[k])}

(***************************************************************************)
(* HIDDevice.hid_write.  NoData is data=None.                              *)
(***************************************************************************)
NoData == <<None>>

Zeros(n) == [k \in 1..n |-> 0]

\* The padding counted without the report id byte: a plausible slip.
hid_write_buffer_longpad(report_id, payload, packet_length) ==
    LET d == IF payload = NoData \/ payload = <<>> THEN <<>> ELSE payload
    IN  IF packet_length > 0
        THEN <<report_id>> \o d \o Zeros(packet_length - Len(d))
        ELSE <<report_id>> \o d

\* Lines 150-154: the buffer.
hid_write_buffer(report_id, payload, packet_length) ==
    LET d == IF payload = NoData \/ payload = <<>> THEN <<>> ELSE payload
    IN  IF packet_length > 0
        THEN <<report_id>> \o d \o Zeros(packet_length - 1 - Len(d))
        ELSE <<report_id>> \o d

\* The write made before the report kind is looked at: a plausible slip.
hid_write_unchecked(report_type, report_id, payload, packet_length) ==
    LET bytes_ == hid_write_buffer(report_id, payload, packet_length)
    IN  IF report_type = HID_REPORT_TYPE_OUTPUT
        THEN Return(TRUE, <<bytes_>>)
        ELSE Raise("InvalidHIDReportError", FALSE, <<bytes_>>)

\* Lines 150-159; log is the sequence of buffers given to device.write.
hid_write(report_type, report_id, payload, packet_length) ==
    LET bytes_ == hid_write_buffer(report_id, payload, packet_length)
    IN  IF report_type = HID_REPORT_TYPE_OUTPUT
        THEN Return(TRUE, <<bytes_>>)
        ELSE Raise("InvalidHIDReportError", FALSE, <<>>)

(***************************************************************************)
(* DeviceManager.open_device, in its two steps: the access check, and the  *)
(* enumeration and open_path that follow it.  The device may change        *)
(* between the two.                                                        *)
(***************************************************************************)
\* Lines 106-107.
open_device_check(enum, endpoint) ==
    LET r == verify_device_access(enum, endpoint)
    IN  IF r.kind = "raise" THEN r
        ELSE IF ~r.value THEN Raise("DeviceNotFoundError", FALSE, r.log)
        ELSE r

\* Lines 111-116: the first matching interface is opened, or the open fails.
RECURSIVE open_device_loop(_, _, _)
open_device_loop(ifaces, k, endpoint) ==
    IF k > Len(ifaces) THEN Raise("DeviceNotFoundError", <<>>, <<>>)
    ELSE IF Matches(ifaces[k], endpoint)
         THEN IF ifaces[k].open_ok
              THEN Return(<<ifaces[k].path>>, <<Ev("open", ifaces[k].path)>>)
              ELSE Raise("DeviceNotFoundError", <<>>, <<>>)
         ELSE open_device_loop(ifaces, k + 1, endpoint)

\* Lines 109-118; the value is the session's handle.
open_device_open(enum, endpoint) ==
    IF enum.fault THEN Raise("OSError", <<>>, <<>>)
    ELSE open_device_loop(enum.ifaces, 1, endpoint)

(***************************************************************************)
(* BatteryStatus.get_status                                                *)
(***************************************************************************)
\* A DeviceStatus.  battery is None or the level; charging is None or the
\* bool, kept as Python's integers 1 (True) and 0 (False).
Sentinel == [name |-> NoDeviceFound, battery |-> None, charging |-> None]

Bool(x) == IF x # 0 THEN 1 ELSE 0

\* Lines 187-192 and 235-240: the first profile holding a model with this
\* product id; 0 is None.
ProfileByProduct(prof, pid) ==
    LET hits == {p \in 1..Len(prof) :
                    \E j \in 1..Len(prof[p].models) :
                        prof[p].models[j].product_id = pid}
    IN  IF hits = {} THEN 0 ELSE CHOOSE p \in hits : \A q \in hits : p <= q

\* Lines 249-252: the first profile of this name.
ProfileByName(prof, name) ==
    CHOOSE p \in 1..Len(prof) :
        /\ prof[p].name = name
        /\ \A q \in 1..(p - 1) : prof[q].name # name

\* Lines 230-245: the models kept for the cascade, as indices, in order.
RECURSIVE KeptModels(_, _, _)
KeptModels(prof, existing, k) ==
    LET mods == LoadModels(prof)
    IN  IF k > Len(mods) THEN <<>>
        ELSE IF mods[k].product_id = mods[existing].product_id
                \/ ProfileByProduct(prof, mods[k].product_id) = 0
             THEN KeptModels(prof, existing, k + 1)
             ELSE <<k>> \o KeptModels(prof, existing, k + 1)

GroupName(prof, k) ==
    prof[ProfileByProduct(prof, LoadModels(prof)[k].product_id)].name

\* The keys of profile_groups, in insertion order.
RECURSIVE GroupNames(_, _, _)
GroupNames(prof, kept, seen) ==
    IF kept = <<>> THEN <<>>
    ELSE LET n == GroupName(prof, Head(kept))
         IN  IF n \in seen THEN GroupNames(prof, Tail(kept), seen)
             ELSE <<n>> \o GroupNames(prof, Tail(kept), seen \cup {n})

\* Lines 229-256: the attempts of the cascade in the order the two loops make
\* them, each with the profile whose battery_level it uses.
CascadeCandidates(prof, existing) ==
    LET kept == KeptModels(prof, existing, 1)
        names == GroupNames(prof, kept, {})
        group(n) == SelectSeq(kept, LAMBDA k : GroupName(prof, k) = n)
    IN  Flatten([g \in 1..Len(names) |->
                    [i \in 1..Len(group(names[g])) |->
                        [model |-> group(names[g])[i],
                         battery |-> ProfileByName(prof, names[g])]]])

\* Accepting any non-empty response: a plausible slip.
ValidResponse_nonempty(d, bat) == d # <<>>

\* Lines 212 and 273: the response is there and long enough.
ValidResponse(d, bat) == d # <<>> /\ Len(d) >= bat.response_length

\* The level read from byte 1: a plausible slip.
Decode_shifted(bat, d) ==
    IF bat.level + 1 >= Len(d) \/ bat.is_charging >= Len(d)
    THEN Raise("IndexError", Sentinel, <<>>)
    ELSE Return([name |-> "", battery |-> d[bat.level + 2],
                 charging |-> Bool(d[bat.is_charging + 1])], <<>>)

\* Lines 215-216 and 278-279: the profile's level and is_charging lambdas.
Decode(bat, d) ==
    IF bat.level >= Len(d) \/ bat.is_charging >= Len(d)
    THEN Raise("IndexError", Sentinel, <<>>)
    ELSE Return([name |-> "", battery |-> d[bat.level + 1],
                 charging |-> Bool(d[bat.is_charging + 1])], <<>>)

\* An except clause that leaves IndexError out: a plausible slip.
Caught_noindex(exc) ==
    exc \in {"", "DeviceNotFoundError", "InvalidHIDReportError"}

\* Lines 222 and 283: the exceptions an attempt swallows ("" is no exception:
\* the attempt fell through on a short response).
Caught(exc) ==
    exc \in {"", "DeviceNotFoundError", "InvalidHIDReportError", "IndexError"}

\* A finally clause that closes nothing: a plausible slip.
FinallyClose_never(dev) == FALSE

\* Lines 225 and 286: the finally clause closes the session if there is one.
FinallyClose(dev) == dev # <<>>

\* A cascade that keeps going after a success: a plausible slip.
ReturnsOnSuccess_never == FALSE

\* Lines 218 and 281: `return status` right after the update.
ReturnsOnSuccess == TRUE


Battery == profile[cur.battery].battery_level
Model == models[cur.model]
NoAttempt == [model |-> 0, battery |-> 0]

\* An event of the current call, with the model attempted, the profile whose
\* battery_level the attempt uses, and the bytes written or decoded; a read
\* is kept by the length of its response.
\* The events: "probe" (open_device's access check, with the number of
\* handle operations it made as its len), "open", "write",
\* "read", "decode", "close", and the exception an attempt raised.
TEv(e, b) ==
    [ev |-> e, model |-> cur.model, battery |-> cur.battery,
     len |-> Len(b), bytes |-> IF e = "read" THEN <<>> ELSE b]

\* The finally clause, after the events evs of this step.
Closed(evs) ==
    IF FinallyClose(hid_device)
    THEN trace \o evs \o <<TEv("close", <<>>)>>
    ELSE trace \o evs

Finally ==
    /\ handles' = IF FinallyClose(hid_device)
                  THEN RemoveOne(handles, hid_device[1]) ELSE handles
    /\ hid_device' = <<>>

\* get_status() returns st.
Returns(st, evs) ==
    /\ Finally
    /\ trace' = Closed(evs)
    /\ status' = st
    /\ pc' = "done"
    /\ outcome' = "returned"
    /\ UNCHANGED <<phase, cur, cands>>

\* The attempt is over without a result: the cascade is built (after the
\* primary attempt) or goes on, and get_status() returns when it is exhausted.
NextAttempt(st, evs) ==
    LET rest == IF phase = "primary"
                THEN CascadeCandidates(profile, exists_model) ELSE cands
    IN  /\ Finally
        /\ trace' = Closed(evs)
        /\ status' = st
        /\ phase' = "cascade"
        /\ IF rest = <<>>
           THEN /\ pc' = "done"
                /\ outcome' = "returned"
                /\ cands' = <<>>
                /\ cur' = cur
           ELSE /\ pc' = "verify"
                /\ outcome' = outcome
                /\ cur' = Head(rest)
                /\ cands' = Tail(rest)

\* The attempt ends with exception exc: swallowed, or out of get_status().
Raised(exc, evs) ==
    LET evx == IF exc = "" THEN evs ELSE Append(evs, TEv(exc, <<>>))
    IN  IF Caught(exc) THEN NextAttempt(status, evx)
        ELSE /\ Finally
             /\ trace' = Closed(evx)
             /\ pc' = "done"
             /\ outcome' = "raised"
             /\ UNCHANGED <<phase, cur, cands, status>>

\* Lines 180-195: the sentinel, the early return, the primary profile.
GetStatus_Begin ==
    /\ pc \in {"idle", "done"}
    /\ UNCHANGED <<env, mvars>>
    /\ trace' = <<>>
    /\ status' = Sentinel
    /\ cands' = <<>>
    /\ UNCHANGED <<profile, exists_model, hid_device, handles, call>>
    /\ IF exists_model = 0
       THEN /\ pc' = "done"
            /\ outcome' = "returned"
            /\ phase' = "primary"
            /\ cur' = NoAttempt
       ELSE LET dp == ProfileByProduct(profile, models[exists_model].product_id)
                rest == CascadeCandidates(profile, exists_model)
            IN  /\ outcome' = "none"
                /\ IF dp # 0
                   THEN /\ phase' = "primary"
                        /\ cur' = [model |-> exists_model, battery |-> dp]
                        /\ pc' = "verify"
                   ELSE IF rest = <<>>
                   THEN /\ phase' = "cascade"
                        /\ cur' = NoAttempt
                        /\ pc' = "done"
                   ELSE /\ phase' = "cascade"
                        /\ cur' = Head(rest)
                        /\ pc' = "verify"

\* Lines 198 and 259, open_device's access check (lines 106-107).
GetStatus_Verify ==
    /\ pc = "verify"
    /\ UNCHANGED <<env, mvars>>
    /\ UNCHANGED <<profile, exists_model, call>>
    /\ \E e \in StatusEnums(Model) :
        LET r == open_device_check(e, Model.endpoint)
            probe == <<[TEv("probe", <<>>) EXCEPT !.len = Len(r.log)]>>
        IN  IF r.kind = "raise"
            THEN Raised(r.exc, probe)
            ELSE /\ pc' = "open"
                 /\ trace' = trace \o probe
                 /\ handles' = ApplyLog(handles, r.log)
                 /\ UNCHANGED <<phase, cur, cands, hid_device, status, outcome>>

\* Lines 198 and 259, open_device's open (lines 109-118).
GetStatus_Open ==
    /\ pc = "open"
    /\ UNCHANGED <<env, mvars>>
    /\ UNCHANGED <<profile, exists_model, call>>
    /\ \E e \in StatusEnums(Model) :
        LET r == open_device_open(e, Model.endpoint)
        IN  IF r.kind = "raise"
            THEN Raised(r.exc, <<>>)
            ELSE /\ pc' = "write"
                 /\ hid_device' = r.value
                 /\ handles' = ApplyLog(handles, r.log)
                 /\ trace' = Append(trace, TEv("open", <<>>))
                 /\ UNCHANGED <<phase, cur, cands, status, outcome>>

\* Lines 204-207 and 265-268: the profile's command is written.
GetStatus_Write ==
    /\ pc = "write"
    /\ UNCHANGED <<env, mvars>>
    /\ UNCHANGED <<profile, exists_model, call>>
    /\ LET r == hid_write(Battery.report_type, DEFAULT_REPORT_ID, Battery.command, 0)
           wrote == [i \in 1..Len(r.log) |-> TEv("write", r.log[i])]
       IN  IF r.kind = "raise"
           THEN Raised(r.exc, wrote)
           ELSE /\ pc' = "read"
                /\ trace' = trace \o wrote
                /\ UNCHANGED <<phase, cur, cands, hid_device, status,
                               outcome, handles>>

\* The byte value of the responses when get_status() runs inside the tray
\* application, whose loop looks at the name of the status only.
MonByteVals == {42}

\* What device.read(response_length, timeout) may return: up to that many bytes.
Responses(n) == SeqsUpTo(IF mon = "none" THEN ByteVals ELSE MonByteVals, n)

\* Lines 212-218 and 273-281: the length check, the decode and the return,
\* on the response d.
Checked(d) ==
    LET rd == <<TEv("read", d)>>
        dec == rd \o <<TEv("decode", d)>>
    IN  IF ValidResponse(d, Battery)
        THEN LET r == Decode(Battery, d)
             IN  IF r.kind = "raise" THEN Raised(r.exc, dec)
                 ELSE IF ReturnsOnSuccess
                 THEN Returns([r.value EXCEPT !.name = Model.name], dec)
                 ELSE NextAttempt([r.value EXCEPT !.name = Model.name], dec)
        ELSE Raised("", rd)

\* What hid_device.read(response_length) may do: return a response or fail
\* in the transport.
ReadResults(n) ==
    IF Steady(Model)
    THEN {Return(d, <<>>) : d \in {x \in Responses(n) : Len(x) = n}}
    ELSE IF Faulty(Model)
    THEN {Raise("OSError", <<>>, <<>>)}
    ELSE {Return(d, <<>>) : d \in Responses(n)}
         \cup {Raise("OSError", <<>>, <<>>)}

\* Lines 209-226 and 270-287: the read returns a response, which is checked
\* and decoded, or the transport fails the read; then the finally clause.
GetStatus_Read ==
    /\ pc = "read"
    /\ UNCHANGED <<env, mvars>>
    /\ UNCHANGED <<profile, exists_model, call>>
    /\ \E r \in ReadResults(Battery.response_length) :
        IF r.kind = "raise"
        THEN Raised(r.exc, <<>>)
        ELSE Checked(r.value)

NoCall == [op |-> "none"]

\* The state between two calls of get_status().
Idle ==
    /\ pc = "idle"
    /\ phase = "primary"
    /\ cur = NoAttempt
    /\ cands = <<>>
    /\ hid_device = <<>>
    /\ status = Sentinel
    /\ outcome = "none"
    /\ trace = <<>>
    /\ handles = <<>>

\* No tray application: the operations of _init.py on their own.
NoMonitor ==
    /\ env = AnyDevices
    /\ mon = "none"
    /\ device = 0
    /\ consecutive_failures = 0
    /\ stopped = FALSE
    /\ event = FALSE
    /\ dm_exists = 0
    /\ bs_exists = 0
    /\ battery_level = None
    /\ ui = [state |-> "none", name |-> ""]
    /\ menu = [pc |-> "none", k |-> 0, found |-> 0]
    /\ since_success = 0
    /\ refreshed = FALSE
    /\ recovery = "none"

\* DeviceManager.__init__ (lines 64-66) has run on some state of the devices.
Constructed ==
    exists_model \in {find_existing_model(models, w) : w \in Worlds(models)}

Init ==
    /\ NoMonitor
    /\ profile \in Registries
    /\ Constructed
    /\ Idle
    /\ call = NoCall

Next ==
    \/ GetStatus_Begin
    \/ GetStatus_Verify
    \/ GetStatus_Open
    \/ GetStatus_Write
    \/ GetStatus_Read

Spec == Init /\ [][Next]_vars

(***************************************************************************)
(* The registries the data model allows: product ids and profile names     *)
(* identify a model and a profile, and a response of response_length bytes *)
(* covers the bytes the decode functions read.                             *)
(***************************************************************************)
WellFormed(prof) ==
    LET mods == LoadModels(prof)
    IN  /\ \A i, j \in 1..Len(mods) :
                mods[i].product_id = mods[j].product_id => i = j
        /\ \A p, q \in 1..Len(prof) : prof[p].name = prof[q].name => p = q
        /\ \A p \in 1..Len(prof) :
                /\ prof[p].battery_level.level < prof[p].battery_level.response_length
                /\ prof[p].battery_level.is_charging
                        < prof[p].battery_level.response_length

InitWF ==
    /\ NoMonitor
    /\ profile \in {r \in Registries : WellFormed(r)}
    /\ Constructed
    /\ Idle
    /\ call = NoCall

SpecWF == InitWF /\ [][Next]_vars

(***************************************************************************)
(* Registries in which a product id or a profile name does not identify a  *)
(* variant or a profile.  Nothing in devices.py or _load_models rules them *)
(* out.                                                                    *)
(***************************************************************************)
\* One profile, whose first two variants are one product on two endpoints.
SharedIdInProfile ==
    LET r == MkRegistry(<<3>>, <<ShippedBattery>>)
    IN  [r EXCEPT ![1].models[2].product_id = r[1].models[1].product_id,
                  ![1].models[2].endpoint = 1]

\* Two profiles with their own protocols; the first variant of the second
\* has the product id of the first profile's variant.
SharedIdAcrossProfiles ==
    LET r == MkRegistry(<<1, 2>>, <<ShippedBattery, AltBattery>>)
    IN  [r EXCEPT ![2].models[1].product_id = r[1].models[1].product_id,
                  ![2].models[1].endpoint = 1]

\* Two profiles with their own protocols and one name.
SharedName ==
    LET r == MkRegistry(<<1, 2>>, <<ShippedBattery, AltBattery>>)
    IN  [r EXCEPT ![2].name = r[1].name]

SharedRegistries == {SharedIdInProfile, SharedIdAcrossProfiles, SharedName}

InitShared ==
    /\ NoMonitor
    /\ profile \in SharedRegistries
    /\ Constructed
    /\ Idle
    /\ call = NoCall

SpecShared == InitShared /\ [][Next]_vars

(***************************************************************************)
(* Single operations on drawn arguments.                                   *)
(***************************************************************************)
\* find_existing_model() on every registry and every state of its devices.
InitFind ==
    /\ NoMonitor
    /\ profile \in Registries
    /\ exists_model = 0
    /\ Idle
    /\ call \in {[op |-> "find_existing_model", world |-> w, done |-> FALSE] :
                    w \in Worlds(models)}

\* DeviceManager.__init__ (lines 64-66).
DeviceManager_init ==
    /\ call.op = "find_existing_model"
    /\ UNCHANGED <<env, mvars>>
    /\ ~call.done
    /\ exists_model' = find_existing_model(models, call.world)
    /\ call' = [call EXCEPT !.done = TRUE]
    /\ UNCHANGED <<profile, pc, phase, cur, cands, hid_device, status, outcome,
                   trace, handles>>

SpecFind == InitFind /\ [][DeviceManager_init]_vars

\* The interfaces hid.enumerate() may list: any endpoint, usage and fate of
\* the open and of the close; the path is the position in the list.
IfaceKinds == [interface_number : {0, 1}, usage : {HID_USAGE_VALUE, 2},
               open_ok : BOOLEAN, close_ok : BOOLEAN]

AccessEnums ==
    {EnumFault}
    \cup {EnumOf([k \in 1..Len(s) |->
                    Iface(s[k].interface_number, s[k].usage, k,
                          s[k].open_ok, s[k].close_ok)]) :
            s \in SeqsUpTo(IfaceKinds, MaxIfaces)}

InitAccess ==
    /\ NoMonitor
    /\ profile = ShippedProfile
    /\ exists_model = 0
    /\ Idle
    /\ call \in {[op |-> "verify_device_access", enum |-> e, endpoint |-> ep,
                  done |-> FALSE, res |-> Return(FALSE, <<>>)] :
                    e \in AccessEnums, ep \in {0, 1}}

\* One call of verify_device_access.
VerifyDeviceAccess ==
    /\ call.op = "verify_device_access"
    /\ UNCHANGED <<env, mvars>>
    /\ ~call.done
    /\ LET r == verify_device_access(call.enum, call.endpoint)
       IN  /\ call' = [call EXCEPT !.done = TRUE, !.res = r]
           /\ handles' = ApplyLog(handles, r.log)
    /\ UNCHANGED <<profile, exists_model, pc, phase, cur, cands, hid_device,
                   status, outcome, trace>>

SpecAccess == InitAccess /\ [][VerifyDeviceAccess]_vars

\* The arguments of hid_write: the three HID report kinds, report ids,
\* payloads (None among them) and packet lengths.
WriteBytes == {0, 1, 170}
ReportKinds == {1, HID_REPORT_TYPE_OUTPUT, 3}

InitWrite ==
    /\ NoMonitor
    /\ profile = ShippedProfile
    /\ exists_model = 0
    /\ Idle
    /\ call \in {[op |-> "hid_write", report_type |-> t, report_id |-> i,
                  payload |-> d, packet_length |-> n,
                  done |-> FALSE, res |-> Return(FALSE, <<>>)] :
                    t \in ReportKinds, i \in {DEFAULT_REPORT_ID, 1},
                    d \in SeqsUpTo(WriteBytes, MaxPayload) \cup {NoData},
                    n \in 0..MaxPacket}

\* One call of hid_write on an open session.
HidWrite ==
    /\ call.op = "hid_write"
    /\ UNCHANGED <<env, mvars>>
    /\ ~call.done
    /\ call' = [call EXCEPT !.done = TRUE,
                            !.res = hid_write(call.report_type, call.report_id,
                                              call.payload, call.packet_length)]
    /\ UNCHANGED <<profile, exists_model, pc, phase, cur, cands, hid_device,
                   status, outcome, trace, handles>>

SpecWrite == InitWrite /\ [][HidWrite]_vars

\* The interfaces hid.enumerate() may list for open_device on endpoint 0: one
\* that matches and opens, one that matches and does not, one of another
\* endpoint; the path is the position in the list.
OpenKinds ==
    {[interface_number |-> 0, open_ok |-> TRUE],
     [interface_number |-> 0, open_ok |-> FALSE],
     [interface_number |-> 1, open_ok |-> TRUE]}

OpenEnums ==
    {EnumFault}
    \cup {EnumOf([k \in 1..Len(s) |->
                    Iface(s[k].interface_number, HID_USAGE_VALUE, k,
                          s[k].open_ok, TRUE)]) :
            s \in SeqsUpTo(OpenKinds, MaxIfaces)}

\* Lines 106-118: the access check on what hid.enumerate yields first, then
\* the open on what it yields next.
open_device(checked, listed, endpoint) ==
    LET c == open_device_check(checked, endpoint)
        o == open_device_open(listed, endpoint)
    IN  IF c.kind = "raise" THEN Raise(c.exc, <<>>, c.log)
        ELSE [o EXCEPT !.log = c.log \o o.log]

InitOpen ==
    /\ NoMonitor
    /\ profile = ShippedProfile
    /\ exists_model = 0
    /\ Idle
    /\ call \in {[op |-> "open_device", checked |-> c, listed |-> l,
                  endpoint |-> 0, done |-> FALSE,
                  res |-> Return(<<>>, <<>>)] :
                    c \in OpenEnums, l \in OpenEnums}

\* One call of open_device.
OpenDevice ==
    /\ call.op = "open_device"
    /\ UNCHANGED <<env, mvars>>
    /\ ~call.done
    /\ LET r == open_device(call.checked, call.listed, call.endpoint)
       IN  /\ call' = [call EXCEPT !.done = TRUE, !.res = r]
           /\ handles' = ApplyLog(handles, r.log)
    /\ UNCHANGED <<profile, exists_model, pc, phase, cur, cands, hid_device,
                   status, outcome, trace>>

SpecOpen == InitOpen /\ [][OpenDevice]_vars

(***************************************************************************)
(* The tray application (main.py).  The monitor thread runs get_battery(); *)
(* the menu thread runs the callbacks refresh_connection and quit_app.     *)
(* A thread can be preempted between any two of its steps.  Each step      *)
(* holds at most one access to a field the other thread writes.            *)
(***************************************************************************)
max_consecutive_failures == 3

\* Consecutive sentinel polls counted by since_success; more are not told
\* apart.
MaxFailedPolls == 5

\* get_status()'s locals, and what a step of the application leaves alone.
locals == <<pc, phase, cur, cands, hid_device, status, outcome, trace>>
fixed == <<profile, call, env>>

\* Lines 145, 149 and 153 of main.py: what the loop's except clauses take,
\* `except Exception` last.  These are the exceptions the loop body raises.
Exceptions == {"DeviceConnectionError", "DeviceNotFoundError", "OSError", "TypeError"}

\* The loop without its last clause: a plausible slip.
Handled_named(exc) == exc \in {"DeviceConnectionError", "DeviceNotFoundError"}

Handled(exc) ==
    exc \in {"DeviceConnectionError", "DeviceNotFoundError"} \/ exc \in Exceptions

\* An exception leaves the try block of the loop.
MonRaise(exc) ==
    /\ mon' = IF Handled(exc) THEN "except" ELSE "crashed"
    /\ recovery' = "raised"

\* The threshold met by the first failure: a plausible slip.
AtThreshold_first(n) == n >= 1

\* Line 128: `consecutive_failures >= max_consecutive_failures`.
AtThreshold(n) == n >= max_consecutive_failures

\* Line 107: `while not self.stopped`.  The local device holds nothing the
\* loop still reads.
Mon_Top ==
    /\ mon = "top"
    /\ mon' = IF stopped THEN "exited" ELSE "read"
    /\ refreshed' = FALSE
    /\ device' = 0
    /\ UNCHANGED <<fixed, locals, exists_model, handles,
                   consecutive_failures, stopped, event, dm_exists, bs_exists,
                   battery_level, ui, menu, since_success, recovery>>

\* Lines 109-113: the cached variant is read from the current manager.
Mon_Read ==
    /\ mon = "read"
    /\ device' = dm_exists
    /\ IF dm_exists = 0
       THEN MonRaise("DeviceConnectionError")
       ELSE mon' = "verify" /\ recovery' = recovery
    /\ UNCHANGED <<fixed, locals, exists_model, handles,
                   consecutive_failures, stopped, event, dm_exists, bs_exists,
                   battery_level, ui, menu, since_success, refreshed>>

\* Lines 116-121: the access check on the variant read.
Mon_Verify ==
    /\ mon = "verify"
    /\ \E e \in StatusEnums(models[device]) :
        LET r == verify_device_access(e, models[device].endpoint)
        IN  /\ handles' = ApplyLog(handles, r.log)
            /\ IF r.value
               THEN mon' = "call" /\ recovery' = recovery
               ELSE MonRaise("DeviceConnectionError")
    /\ UNCHANGED <<fixed, locals, exists_model, device,
                   consecutive_failures, stopped, event, dm_exists, bs_exists,
                   battery_level, ui, menu, since_success, refreshed>>

\* Line 125: self.battery_status is read; get_status() runs on that object
\* and its manager whatever the fields are set to meanwhile.
Mon_Call ==
    /\ mon = "call"
    /\ pc = "idle"
    /\ exists_model' = bs_exists
    /\ mon' = "get_status"
    /\ recovery' = "none"
    /\ UNCHANGED <<fixed, locals, handles, device,
                   consecutive_failures, stopped, event, dm_exists, bs_exists,
                   battery_level, ui, menu, since_success, refreshed>>

\* Line 125: the steps of get_status().
Mon_GetStatus_Begin == mon = "get_status" /\ pc = "idle" /\ GetStatus_Begin
Mon_GetStatus_Verify == mon = "get_status" /\ GetStatus_Verify
Mon_GetStatus_Open == mon = "get_status" /\ GetStatus_Open
Mon_GetStatus_Write == mon = "get_status" /\ GetStatus_Write
Mon_GetStatus_Read == mon = "get_status" /\ GetStatus_Read

\* Lines 125-138: get_status() is over; the sentinel is counted, a reading
\* resets the counter, an exception leaves the try block.
Mon_Return ==
    /\ mon = "get_status"
    /\ pc = "done"
    /\ pc' = "idle"
    /\ phase' = "primary"
    /\ cur' = NoAttempt
    /\ cands' = <<>>
    /\ outcome' = "none"
    /\ trace' = <<>>
    /\ IF outcome = "raised"
       THEN /\ MonRaise("OSError")
            /\ status' = Sentinel
            /\ UNCHANGED <<consecutive_failures, since_success>>
       ELSE IF status.name = NoDeviceFound
       THEN /\ since_success' = IF since_success < MaxFailedPolls
                                 THEN since_success + 1 ELSE since_success
            /\ status' = status
            /\ recovery' = recovery
            /\ IF AtThreshold(consecutive_failures)
               THEN mon' = "dongle" /\ UNCHANGED consecutive_failures
               ELSE /\ consecutive_failures' = consecutive_failures + 1
                    /\ mon' = "sleep_poll"
       ELSE /\ consecutive_failures' = 0
            /\ since_success' = 0
            /\ status' = status
            /\ recovery' = recovery
            /\ mon' = "update"
    /\ exists_model' = 0
    /\ UNCHANGED <<fixed, hid_device, handles, device,
                   stopped, event, dm_exists, bs_exists,
                   battery_level, ui, menu, refreshed>>

\* Lines 160-171: _handle_dongle_only_state shows the state, sleeps the
\* polling interval and raises.
handle_dongle_only_state(device_name) ==
    Raise("DeviceConnectionError", [state |-> "dongle", name |-> device_name], <<>>)

\* Lines 129-130 and 135: the state is surfaced; the counter is reset and
\* the loop continues if the call returns.
Mon_Dongle ==
    /\ mon = "dongle"
    /\ LET r == handle_dongle_only_state(models[device].name)
       IN  /\ ui' = r.value
           /\ IF r.kind = "raise"
              THEN MonRaise(r.exc) /\ UNCHANGED consecutive_failures
              ELSE /\ consecutive_failures' = 0
                   /\ mon' = "top"
                   /\ recovery' = recovery
    /\ UNCHANGED <<fixed, locals, exists_model, handles, device,
                   stopped, event, dm_exists, bs_exists,
                   battery_level, menu, since_success, refreshed>>

\* Lines 134-135: time.sleep(POLLING_INTERVAL), then `continue`.
Mon_SleepPoll ==
    /\ mon = "sleep_poll"
    /\ mon' = "top"
    /\ UNCHANGED <<fixed, locals, exists_model, handles, device,
                   consecutive_failures, stopped, event, dm_exists, bs_exists,
                   battery_level, ui, menu, since_success, refreshed, recovery>>

\* Lines 139 and 187-203: update_battery_info; line 202 reads the name from
\* the current manager's exists_model, a TypeError if that is None.
Mon_Update ==
    /\ mon = "update"
    /\ battery_level' = status.battery
    /\ status' = Sentinel
    /\ IF dm_exists = 0
       THEN MonRaise("TypeError") /\ ui' = ui
       ELSE /\ ui' = [state |-> "battery", name |-> models[dm_exists].name]
            /\ mon' = "clear"
            /\ recovery' = recovery
    /\ UNCHANGED <<fixed, pc, phase, cur, cands, hid_device, outcome, trace,
                   exists_model, handles, device,
                   consecutive_failures, stopped, event, dm_exists, bs_exists,
                   menu, since_success, refreshed>>

\* Lines 141-142: the interval is chosen and the flag cleared.
Mon_Clear ==
    /\ mon = "clear"
    /\ event' = FALSE
    /\ mon' = "wait"
    /\ UNCHANGED <<fixed, locals, exists_model, handles, device,
                   consecutive_failures, stopped, dm_exists, bs_exists,
                   battery_level, ui, menu, since_success, refreshed, recovery>>

\* Line 143: event.wait returns at once when the flag is set.
Mon_WaitWoken ==
    /\ mon = "wait"
    /\ event
    /\ mon' = "top"
    /\ UNCHANGED <<fixed, locals, exists_model, handles, device,
                   consecutive_failures, stopped, event, dm_exists, bs_exists,
                   battery_level, ui, menu, since_success, refreshed, recovery>>

\* Line 143: the flag stayed clear for the whole interval.
Mon_WaitTimeout ==
    /\ mon = "wait"
    /\ ~event
    /\ mon' = "top"
    /\ UNCHANGED <<fixed, locals, exists_model, handles, device,
                   consecutive_failures, stopped, event, dm_exists, bs_exists,
                   battery_level, ui, menu, since_success, refreshed, recovery>>

\* Lines 145-146 (149-150, 153-154) and 173-185: _handle_error_state.
Mon_Except ==
    /\ mon = "except"
    /\ ui' = [state |-> "error", name |-> ""]
    /\ recovery' = "shown"
    /\ mon' = "sleep_retry"
    /\ UNCHANGED <<fixed, locals, exists_model, handles, device,
                   consecutive_failures, stopped, event, dm_exists, bs_exists,
                   battery_level, menu, since_success, refreshed>>

\* Line 147 (151, 155): time.sleep(ERROR_RETRY_TIMEOUT).
Mon_SleepRetry ==
    /\ mon = "sleep_retry"
    /\ recovery' = "slept"
    /\ mon' = "refresh"
    /\ UNCHANGED <<fixed, locals, exists_model, handles, device,
                   consecutive_failures, stopped, event, dm_exists, bs_exists,
                   battery_level, ui, menu, since_success, refreshed>>

\* Lines 148 and 333: a new DeviceManager is built (discovery) and stored.
Mon_Refresh ==
    /\ mon = "refresh"
    /\ \E w \in Worlds(models) : dm_exists' = find_existing_model(models, w)
    /\ mon' = "rebind"
    /\ UNCHANGED <<fixed, locals, exists_model, handles, device,
                   consecutive_failures, stopped, event, bs_exists,
                   battery_level, ui, menu, since_success, refreshed, recovery>>

\* Lines 334-335: a new BatteryStatus on the current manager; event.set().
Mon_Rebind ==
    /\ mon = "rebind"
    /\ bs_exists' = dm_exists
    /\ event' = TRUE
    /\ recovery' = "refreshed"
    /\ mon' = "top"
    /\ UNCHANGED <<fixed, locals, exists_model, handles, device,
                   consecutive_failures, stopped, dm_exists,
                   battery_level, ui, menu, since_success, refreshed>>

\* The menu thread between two callbacks.
MenuIdle == [pc |-> "idle", k |-> 0, found |-> 0]

\* "click to refresh": refresh_connection starts building a DeviceManager,
\* whose find_existing_model (lines 122-125 of _init.py) probes the models
\* in order.
Menu_Refresh ==
    /\ menu.pc = "idle"
    /\ menu' = [pc |-> "probe", k |-> 1, found |-> 0]
    /\ UNCHANGED <<fixed, locals, exists_model, handles, mon, device,
                   consecutive_failures, stopped, event, dm_exists, bs_exists,
                   battery_level, ui, since_success, refreshed, recovery>>

\* verify_device_access on model k up to its open_path (lines 80-84 of
\* _init.py): the handle is open, or the model is not accessible and the
\* scan goes on.
Menu_Probe ==
    /\ menu.pc = "probe"
    /\ \E e \in StatusEnums(models[menu.k]) :
        LET r == verify_device_access(e, models[menu.k].endpoint)
        IN  IF r.value
            THEN /\ handles' = ApplyLog(handles, <<Head(r.log)>>)
                 /\ menu' = [menu EXCEPT !.pc = "close"]
            ELSE /\ handles' = ApplyLog(handles, r.log)
                 /\ menu' = IF menu.k = Len(models)
                            THEN [menu EXCEPT !.pc = "assign"]
                            ELSE [menu EXCEPT !.k = menu.k + 1]
    /\ UNCHANGED <<fixed, locals, exists_model, mon, device,
                   consecutive_failures, stopped, event, dm_exists, bs_exists,
                   battery_level, ui, since_success, refreshed, recovery>>

\* Lines 85-86 and 124 of _init.py: the probe's handle is closed and the
\* model is the one found.
Menu_ProbeClose ==
    /\ menu.pc = "close"
    /\ handles' = ApplyLog(handles, <<Ev("close", PathOf(models[menu.k]))>>)
    /\ menu' = [menu EXCEPT !.pc = "assign", !.found = menu.k]
    /\ UNCHANGED <<fixed, locals, exists_model, mon, device,
                   consecutive_failures, stopped, event, dm_exists, bs_exists,
                   battery_level, ui, since_success, refreshed, recovery>>

\* Line 333: the new manager is stored.
Menu_Assign ==
    /\ menu.pc = "assign"
    /\ dm_exists' = menu.found
    /\ menu' = [MenuIdle EXCEPT !.pc = "rebind"]
    /\ UNCHANGED <<fixed, locals, exists_model, handles, mon, device,
                   consecutive_failures, stopped, event, bs_exists,
                   battery_level, ui, since_success, refreshed, recovery>>

\* Lines 334-335: a new BatteryStatus on the current manager; event.set().
Menu_Rebind ==
    /\ menu.pc = "rebind"
    /\ bs_exists' = dm_exists
    /\ event' = TRUE
    /\ refreshed' = TRUE
    /\ menu' = MenuIdle
    /\ UNCHANGED <<fixed, locals, exists_model, handles, mon, device,
                   consecutive_failures, stopped, dm_exists,
                   battery_level, ui, since_success, recovery>>

\* Lines 337-340: quit_app sets the flag and stops the icon; no callback
\* runs after it.
Menu_Quit ==
    /\ menu.pc = "idle"
    /\ stopped' = TRUE
    /\ menu' = [MenuIdle EXCEPT !.pc = "quit"]
    /\ UNCHANGED <<fixed, locals, exists_model, handles, mon, device,
                   consecutive_failures, event, dm_exists, bs_exists,
                   battery_level, ui, since_success, refreshed, recovery>>

\* SystrayIcon.__init__ (lines 71-79) and start() (lines 344-356): the
\* manager has run its discovery, the icon says "Connecting", the monitor
\* thread is about to enter its loop.
InitMon ==
    /\ env = AnyDevices
    /\ profile = ShippedProfile
    /\ dm_exists \in {find_existing_model(models, w) : w \in Worlds(models)}
    /\ bs_exists = dm_exists
    /\ exists_model = 0
    /\ Idle
    /\ call = NoCall
    /\ mon = "top"
    /\ device = 0
    /\ consecutive_failures = 0
    /\ stopped = FALSE
    /\ event = FALSE
    /\ battery_level = None
    /\ ui = [state |-> "connecting", name |-> ""]
    /\ menu = MenuIdle
    /\ since_success = 0
    /\ refreshed = FALSE
    /\ recovery = "none"

NextMon ==
    \/ Mon_Top
    \/ Mon_Read
    \/ Mon_Verify
    \/ Mon_Call
    \/ Mon_GetStatus_Begin
    \/ Mon_GetStatus_Verify
    \/ Mon_GetStatus_Open
    \/ Mon_GetStatus_Write
    \/ Mon_GetStatus_Read
    \/ Mon_Return
    \/ Mon_Dongle
    \/ Mon_SleepPoll
    \/ Mon_Update
    \/ Mon_Clear
    \/ Mon_WaitWoken
    \/ Mon_WaitTimeout
    \/ Mon_Except
    \/ Mon_SleepRetry
    \/ Mon_Refresh
    \/ Mon_Rebind
    \/ Menu_Refresh
    \/ Menu_Probe
    \/ Menu_ProbeClose
    \/ Menu_Assign
    \/ Menu_Rebind
    \/ Menu_Quit

SpecMon == InitMon /\ [][NextMon]_vars

(***************************************************************************)
(* The monitor loop on devices of which one variant, from some point on,   *)
(* stays accessible and answers every query in full.  No menu callback     *)
(* runs, so the stop flag is never set.  The monitor thread is a running   *)
(* thread: its sleeps end, its wait times out (nothing sets the event      *)
(* between the clear of line 142 and the wait of line 143), and it takes   *)
(* its next step.                                                          *)
(***************************************************************************)
\* From now on one variant is accessible and answers in full.
Env_Settle ==
    /\ env = AnyDevices
    /\ env' \in [good : 1..Len(models), others : OtherDevices]
    /\ UNCHANGED <<profile, call, locals, exists_model, handles, mvars>>

MonStep ==
    \/ Mon_Top
    \/ Mon_Read
    \/ Mon_Verify
    \/ Mon_Call
    \/ Mon_GetStatus_Begin
    \/ Mon_GetStatus_Verify
    \/ Mon_GetStatus_Open
    \/ Mon_GetStatus_Write
    \/ Mon_GetStatus_Read
    \/ Mon_Return
    \/ Mon_Dongle
    \/ Mon_SleepPoll
    \/ Mon_Update
    \/ Mon_Clear
    \/ Mon_WaitTimeout
    \/ Mon_Except
    \/ Mon_SleepRetry
    \/ Mon_Refresh
    \/ Mon_Rebind

NextLive == MonStep \/ Env_Settle

SpecLive == InitMon /\ [][NextLive]_vars /\ WF_vars(MonStep)

(***************************************************************************)
(* The claims.                                                             *)
(***************************************************************************)
\* The profile that holds the model at position k of the registry order.
OwnerOf(prof, k) ==
    CHOOSE p \in 1..Len(prof) :
        LET before == Len(LoadModels(SubSeq(prof, 1, p - 1)))
        IN  before < k /\ k <= before + Len(prof[p].models)

Owner(k) == profile[OwnerOf(profile, k)].battery_level

\* The models in registry order, but for model k.
Others(k) == SelectSeq([i \in 1..Len(models) |-> i], LAMBDA i : i # k)

\* The models get_status() has attempted so far, in order.
Attempted ==
    LET probes == SelectSeq(trace, LAMBDA e : e.ev = "probe")
    IN  [i \in 1..Len(probes) |-> probes[i].model]

IsPrefix(s, t) == Len(s) <= Len(t) /\ s = SubSeq(t, 1, Len(s))

\* Event i is a read that returned the bytes its model's profile asks for.
FullRead(i) ==
    /\ trace[i].ev = "read"
    /\ trace[i].len >= Owner(trace[i].model).response_length

ShortRead(i) ==
    /\ trace[i].ev = "read"
    /\ trace[i].len < Owner(trace[i].model).response_length

HasEvent(e) == \E i \in 1..Len(trace) : trace[i].ev = e

IsDeviceStatus(st) ==
    \/ st = Sentinel
    \/ /\ \E k \in 1..Len(models) : st.name = models[k].name
       /\ st.battery \in ByteVals
       /\ st.charging \in {0, 1}

\* C2: get_status() returns a DeviceStatus whatever open failures,
\* invalid-report errors, short or empty reads and decode index errors occur
\* (only a fault of the transport itself gets out of it), and it returns the
\* sentinel when no variant was resolved or no read returned response_length
\* bytes.
C2_GetStatusTotal ==
    pc = "done" =>
        /\ outcome \in {"returned", "raised"}
        /\ outcome = "raised" => HasEvent("OSError")
        /\ outcome = "returned" => IsDeviceStatus(status)
        /\ (outcome = "returned" /\ ~\E i \in 1..Len(trace) : FullRead(i)) =>
                status = Sentinel

\* A call in which one attempt could not open, one read was short and one
\* decode ran out of the response, and which returned the sentinel.
C2_Witness ==
    /\ pc = "done"
    /\ outcome = "returned"
    /\ status = Sentinel
    /\ HasEvent("DeviceNotFoundError")
    /\ HasEvent("IndexError")
    /\ \E i \in 1..Len(trace) : ShortRead(i) /\ trace[i].len > 0

\* The sessions held after the events of t, starting from held; -1 when a
\* session is opened or a model probed while one is held, or a close comes
\* with none held.
RECURSIVE Held(_, _)
Held(t, held) ==
    IF t = <<>> \/ held = -1 THEN held
    ELSE LET e == Head(t).ev
         IN  Held(Tail(t),
                  IF e = "open" THEN (IF held = 0 THEN 1 ELSE -1)
                  ELSE IF e = "close" THEN (IF held = 1 THEN 0 ELSE -1)
                  ELSE IF e = "probe" THEN (IF held = 0 THEN 0 ELSE -1)
                  ELSE held)

\* C3: every session get_status() opens is closed exactly once, before the
\* next candidate is attempted and before get_status() returns or raises, and
\* no handle is open when get_status() is not executing.
C3_SessionsClosedOnce ==
    /\ Held(trace, 0) = Len(hid_device)
    /\ handles = hid_device
    /\ pc \in {"idle", "done", "verify", "open"} => handles = <<>>
    /\ pc \in {"write", "read"} => Len(handles) = 1

Count(e) == Len(SelectSeq(trace, LAMBDA x : x.ev = e))

\* A call that closed one session after a short read, one after a refused
\* write or a decode error, and one after a successful decode.
C3_Witness ==
    /\ pc = "done"
    /\ outcome = "returned"
    /\ status # Sentinel
    /\ Count("open") = 3
    /\ Count("close") = 3
    /\ HasEvent("InvalidHIDReportError") \/ HasEvent("IndexError")
    /\ \E i \in 1..Len(trace) : ShortRead(i)

\* C4: when the resolved variant opens and its read returns response_length
\* bytes, get_status() returns that variant's name with the level and the
\* charging flag its profile decodes from the bytes read.
C4_PrimaryReading ==
    \A i \in 1..Len(trace) :
        (exists_model # 0 /\ trace[i].model = exists_model /\ FullRead(i)) =>
            /\ pc = "done"
            /\ outcome = "returned"
            /\ Len(trace) = i + 2
            /\ trace[i + 1].ev = "decode"
            /\ trace[i + 1].len = trace[i].len
            /\ status.name = models[exists_model].name
            /\ status.battery =
                  trace[i + 1].bytes[Owner(exists_model).level + 1]
            /\ status.charging =
                  IF trace[i + 1].bytes[Owner(exists_model).is_charging + 1] = 0
                  THEN 0 ELSE 1

\* The shipped registry, the wireless variant resolved and answering
\* [42, 0, 255]: battery 42 (byte 0), charging (byte 2 is not zero).
C4_Witness ==
    /\ profile = ShippedProfile
    /\ exists_model = 2
    /\ pc = "done"
    /\ Attempted = <<2>>
    /\ HasEvent("decode")
    /\ status = [name |-> "SteelSeries Rival 650 (wireless mode)",
                 battery |-> 42, charging |-> 1]

\* C5: a response shorter than response_length is never decoded, in the
\* primary attempt or in the cascade: the session is closed and the candidate
\* has failed; after a short read on the resolved variant get_status() goes
\* on to the next variant in registry order (or returns the sentinel when
\* there is none).
C5_ShortNeverDecoded ==
    /\ \A i \in 1..Len(trace) :
            trace[i].ev = "decode" =>
                trace[i].len >= Owner(trace[i].model).response_length
    /\ \A i \in 1..Len(trace) :
            ShortRead(i) =>
                /\ trace[i + 1].ev = "close"
                /\ status.name # models[trace[i].model].name
    /\ \A i \in 1..Len(trace) :
            (ShortRead(i) /\ trace[i].model = exists_model) =>
                IF Others(exists_model) = <<>>
                THEN pc = "done" /\ outcome = "returned" /\ status = Sentinel
                ELSE IF Len(trace) = i + 1
                THEN pc = "verify" /\ cur.model = Others(exists_model)[1]
                ELSE /\ trace[i + 2].ev = "probe"
                     /\ trace[i + 2].model = Others(exists_model)[1]

\* The second of three variants is resolved and answers with one byte short:
\* the first variant is probed next.
C5_Witness ==
    /\ Len(models) = 3
    /\ exists_model = 2
    /\ Len(trace) >= 6
    /\ trace[4].ev = "read"
    /\ trace[4].len = Owner(2).response_length - 1
    /\ trace[4].len > 0
    /\ trace[5].ev = "close"
    /\ trace[6].ev = "probe"
    /\ trace[6].model = 1

\* C6: after a failed primary attempt the remaining variants are attempted
\* in registry order; the first one whose read returns response_length bytes
\* ends the call, which returns its reading under its name, and no later
\* variant is opened; the sentinel is returned only after every variant was
\* attempted.
C6_CascadeFirstSuccess ==
    exists_model # 0 =>
        /\ IsPrefix(Attempted, <<exists_model>> \o Others(exists_model))
        /\ pc = "verify" =>
              cur.model = (<<exists_model>> \o Others(exists_model))[Len(Attempted) + 1]
        /\ \A i \in 1..Len(trace) :
              (FullRead(i) /\ trace[i].model # exists_model) =>
                  /\ pc = "done"
                  /\ outcome = "returned"
                  /\ Len(trace) = i + 2
                  /\ trace[i + 1].ev = "decode"
                  /\ trace[i + 2].ev = "close"
                  /\ status.name = models[trace[i].model].name
                  /\ status.battery =
                        trace[i + 1].bytes[Owner(trace[i].model).level + 1]
                  /\ status.charging =
                        IF trace[i + 1].bytes[Owner(trace[i].model).is_charging + 1] = 0
                        THEN 0 ELSE 1
        /\ (pc = "done" /\ outcome = "returned" /\ status = Sentinel) =>
              Attempted = <<exists_model>> \o Others(exists_model)

\* Variant 1 of three is resolved but no longer opens; variant 2 answers
\* [42, 0, 255]: the call returns variant 2, battery 42, charging, and
\* variant 3 is never attempted.
C6_Witness ==
    /\ Len(models) = 3
    /\ exists_model = 1
    /\ pc = "done"
    /\ Attempted = <<1, 2>>
    /\ HasEvent("DeviceNotFoundError")
    /\ status = [name |-> "variant 2", battery |-> 42, charging |-> 1]

FindDone == call.op = "find_existing_model" /\ call.done

Accessible ==
    {k \in 1..Len(models) :
        \E i \in 1..Len(call.world[k].ifaces) :
            /\ ~call.world[k].fault
            /\ call.world[k].ifaces[i].open_ok}

\* C1: find_existing_model() returns the accessible variant that comes first
\* in registry order, and None exactly when no variant is accessible.
C1_FindLowestAccessible ==
    FindDone =>
        IF Accessible = {} THEN exists_model = 0
        ELSE /\ exists_model \in Accessible
             /\ \A k \in Accessible : exists_model <= k

\* Three variants, the first not accessible and the two others accessible: the
\* second is returned.
C1_Witness ==
    /\ FindDone
    /\ Accessible = {2, 3}
    /\ exists_model = 2

WriteDone == call.op = "hid_write" /\ call.done

Payload == IF call.payload = NoData THEN <<>> ELSE call.payload

\* C7: hid_write with a report kind other than the output kind raises
\* InvalidHIDReportError and writes nothing to the device.
C7_UnsupportedKindNoWrite ==
    (WriteDone /\ call.report_type # HID_REPORT_TYPE_OUTPUT) =>
        /\ call.res.kind = "raise"
        /\ call.res.exc = "InvalidHIDReportError"
        /\ call.res.log = <<>>

\* A feature report with a payload and a packet length was refused.
C7_Witness ==
    /\ WriteDone
    /\ call.report_type = 3
    /\ call.payload = <<170, 1>>
    /\ call.packet_length = 5
    /\ call.res.kind = "raise"

IsBuffer(buf) ==
    /\ buf[1] = call.report_id
    /\ Len(buf) >= 1 + Len(Payload)
    /\ SubSeq(buf, 2, 1 + Len(Payload)) = Payload
    /\ \A k \in (2 + Len(Payload))..Len(buf) : buf[k] = 0

\* C8 as claimed: one buffer per call, report id, payload, and zero padding
\* that makes the buffer packet_length bytes long whenever packet_length > 0.
C8_Claimed ==
    (WriteDone /\ call.report_type = HID_REPORT_TYPE_OUTPUT) =>
        /\ call.res.kind = "return"
        /\ Len(call.res.log) = 1
        /\ IsBuffer(call.res.log[1])
        /\ Len(call.res.log[1]) =
              IF call.packet_length > 0 THEN call.packet_length
              ELSE 1 + Len(Payload)

\* C8 as amended: one buffer per call, report id, payload, and zero padding up
\* to packet_length bytes; a payload longer than packet_length - 1 bytes is
\* sent whole, so the buffer holds the larger of packet_length and
\* 1 + len(payload) bytes.
C8_PaddedBuffer ==
    (WriteDone /\ call.report_type = HID_REPORT_TYPE_OUTPUT) =>
        /\ call.res.kind = "return"
        /\ Len(call.res.log) = 1
        /\ IsBuffer(call.res.log[1])
        /\ Len(call.res.log[1]) =
              IF call.packet_length > 1 + Len(Payload) THEN call.packet_length
              ELSE 1 + Len(Payload)

\* The example of the specification: packet_length 5, report id 0, payload
\* [0xAA, 0x01] gives [0x00, 0xAA, 0x01, 0x00, 0x00].
C8_Witness ==
    /\ WriteDone
    /\ call.report_type = HID_REPORT_TYPE_OUTPUT
    /\ call.report_id = 0
    /\ call.payload = <<170, 1>>
    /\ call.packet_length = 5
    /\ call.res.log = << <<0, 170, 1, 0, 0>> >>

AccessDone == call.op = "verify_device_access" /\ call.done

MatchingIfaces ==
    {k \in 1..Len(call.enum.ifaces) : Matches(call.enum.ifaces[k], call.endpoint)}

NoCloseFault == \A k \in MatchingIfaces : call.enum.ifaces[k].close_ok

\* C9 as claimed, where no close faults: verify_device_access returns true if
\* and only if some enumerated interface with the endpoint and the usage can
\* be opened.
C9_Claimed ==
    (AccessDone /\ NoCloseFault) =>
        (call.res.value <=>
            \E k \in MatchingIfaces : call.enum.ifaces[k].open_ok)

FirstMatching == CHOOSE k \in MatchingIfaces : \A j \in MatchingIfaces : k <= j

\* C10: verify_device_access never raises, returns true only when an interface
\* was opened and closed without a fault, and leaves no handle open.
C10_NeverRaisesNoHandle ==
    AccessDone =>
        /\ call.res.kind = "return"
        /\ call.res.value \in BOOLEAN
        /\ call.res.value =>
              /\ ~call.enum.fault
              /\ MatchingIfaces # {}
              /\ call.enum.ifaces[FirstMatching].open_ok
              /\ call.enum.ifaces[FirstMatching].close_ok
        /\ handles = <<>>

\* A probe whose open succeeded and whose close faulted: the result is false
\* and the handle is gone.
C10_Witness ==
    /\ AccessDone
    /\ MatchingIfaces # {}
    /\ call.enum.ifaces[FirstMatching].open_ok
    /\ ~call.enum.ifaces[FirstMatching].close_ok
    /\ call.res.value = FALSE
    /\ call.res.log # <<>>

OpenDone == call.op = "open_device" /\ call.done

\* C11 as claimed: open_device returns a session holding the one open handle,
\* on an interface of the endpoint, or raises DeviceNotFoundError and leaves
\* no handle open; it raises DeviceNotFoundError when the access check is
\* false and when the open that follows fails, and nothing else.
C11_Claimed ==
    OpenDone =>
        \/ /\ call.res.kind = "return"
           /\ handles = call.res.value
           /\ Len(handles) = 1
           /\ \E k \in 1..Len(call.listed.ifaces) :
                 /\ call.listed.ifaces[k].path = handles[1]
                 /\ Matches(call.listed.ifaces[k], call.endpoint)
        \/ /\ call.res.kind = "raise"
           /\ call.res.exc = "DeviceNotFoundError"
           /\ handles = <<>>

\* The handles get_status() had the transport open: one per session, and two
\* handle operations (open_path, close) per access check that passed.
DeviceOpens ==
    Count("open")
    + Len(SelectSeq(trace, LAMBDA e : e.ev = "probe" /\ e.len = 2))

\* The call read the resolved variant at the first attempt.
PrimarySuccess ==
    /\ pc = "done"
    /\ outcome = "returned"
    /\ exists_model # 0
    /\ \E i \in 1..Len(trace) :
          /\ FullRead(i)
          /\ trace[i].model = exists_model
          /\ \A j \in 1..i : trace[j].model = exists_model

\* C12 as claimed: a call answered in full by the resolved variant makes one
\* open, one write, one read and one close on the device and touches no other
\* variant.
C12_Claimed ==
    PrimarySuccess =>
        /\ DeviceOpens = 1
        /\ Count("write") = 1
        /\ Count("read") = 1
        /\ Count("close") = 1
        /\ \A i \in 1..Len(trace) : trace[i].model = exists_model

\* C13 as claimed: a battery value get_status() returns is within 0..100.
C13_Claimed ==
    (pc = "done" /\ outcome = "returned" /\ status.battery # None) =>
        status.battery \in 0..100

\* C14 as claimed: a manual refresh that has completed since the iteration
\* began leaves the flag set for the wait, so the wait ends at once.
C14_Claimed == (mon = "wait" /\ refreshed) => event

\* C15 as claimed: no two open handles on one device path.
C15_Claimed ==
    \A i, j \in 1..Len(handles) : handles[i] = handles[j] => i = j

\* C16 as claimed: within one iteration the variant the loop read, the
\* variant of the manager get_status() runs on and the variant of the manager
\* whose name is displayed are the same one.
C16_Claimed ==
    /\ mon = "get_status" => exists_model = device
    /\ mon = "update" => dm_exists = device

\* C17: the dongle state is surfaced only when at least
\* max_consecutive_failures polls have returned the sentinel since the last
\* reading; a sentinel below the threshold adds one to the counter, leaves the
\* displayed state as it is and is followed by the polling sleep and the next
\* iteration; a reading sets the counter to zero.
C17_ThresholdBeforeDongle ==
    [][/\ mon' = "dongle" =>
            /\ since_success' >= max_consecutive_failures
            /\ consecutive_failures' >= max_consecutive_failures
       /\ (mon = "get_status" /\ mon' = "sleep_poll") =>
            /\ consecutive_failures < max_consecutive_failures
            /\ consecutive_failures' = consecutive_failures + 1
            /\ ui' = ui
       /\ (mon = "sleep_poll" /\ mon' # mon) => (mon' = "top" /\ ui' = ui)
       /\ mon' = "update" => consecutive_failures' = 0]_vars

\* The fourth sentinel in a row: the state is about to be shown.
C17_Witness ==
    /\ mon = "dongle"
    /\ consecutive_failures = max_consecutive_failures
    /\ since_success = max_consecutive_failures + 1
    /\ ui.state # "dongle"

\* C18 as claimed: once the dongle state has been surfaced the counter is zero.
C18_Claimed ==
    (mon = "except" /\ ui.state = "dongle") => consecutive_failures = 0

\* C19: an iteration that raises is followed by the error state, the retry
\* sleep and a new discovery, in this order, before get_status() is called
\* again; no exception ends the loop, which exits on the stop flag only.
C19_ErrorStateRetryRefresh ==
    /\ mon # "crashed"
    /\ mon = "exited" => stopped
    /\ mon = "except" => recovery = "raised"
    /\ mon = "sleep_retry" => (recovery = "shown" /\ ui.state = "error")
    /\ mon = "refresh" => (recovery = "slept" /\ ui.state = "error")
    /\ mon = "rebind" => (recovery = "slept" /\ ui.state = "error")
    /\ mon \in {"top", "read", "verify", "call"} =>
            recovery \in {"none", "refreshed"}
    /\ mon \in {"get_status", "sleep_poll", "dongle", "update", "clear", "wait"} =>
            recovery = "none"

\* get_status() is about to be called after an iteration that raised: the
\* error state is on display and discovery has run again.
C19_Witness ==
    /\ mon = "call"
    /\ recovery = "refreshed"
    /\ ui.state = "error"
    /\ ~stopped

\* C20 as claimed: once the stop flag is set a monitor thread inside the wait
\* finds the event flag set.
C20_Claimed == (stopped /\ mon = "wait") => event

\* C21 as claimed: a call in which every attempt failed has attempted the
\* resolved variant and then every other variant of the registry, once each,
\* in registry order.
C21_Claimed ==
    (pc = "done" /\ outcome = "returned" /\ status = Sentinel
        /\ exists_model # 0) =>
        Attempted = <<exists_model>> \o Others(exists_model)

\* C22 as claimed: every write, read and decode of an attempt uses the
\* battery_level of the profile that holds the attempted variant.
C22_Claimed ==
    \A i \in 1..Len(trace) :
        trace[i].ev \in {"write", "read", "decode"} =>
            profile[trace[i].battery].battery_level = Owner(trace[i].model)

\* C23 as claimed: when update_battery_info has shown a reading, the name
\* on display is the name in the status that get_status() returned.
C23_Claimed ==
    [][(mon = "update" /\ mon' = "clear") => ui'.name = status.name]_vars

\* C24 as claimed: once a variant stays accessible and answers in full, the
\* monitor loop gets to show a battery reading.
C24_Claimed == (env.good # 0) ~> (mon = "clear")

\* The same with every other variant absent for good.
OnlyVariantShowsReading ==
    (env.good # 0 /\ env.others = "absent") ~> (mon = "clear")

\* The same with every other variant accessible and failing every read.
BesideFaultyShowsReading ==
    (env.good # 0 /\ env.others = "faulty") ~> (mon = "clear")

====
